---- MODULE Spec2Model ----
(***************************************************************************)
(* Model of src/main.py: a configuration DSL that is parsed by a Lark      *)
(* grammar, evaluated bottom-up by ConfigTransformer (constant table,      *)
(* constant references, prefix arithmetic) and serialised to an XML tree   *)
(* by dict_to_xml / _to_xml; main() wires the three stages together.       *)
(*                                                                         *)
(* Python values are tagged records:                                       *)
(*   [t |-> "int", v]           int                                        *)
(*   [t |-> "None"]             None                                       *)
(*   [t |-> "list", items]      list                                       *)
(*   [t |-> "dict", items]      dict: sequence of [key, value] in          *)
(*                              insertion order, keys unique               *)
(*   [t |-> "tuple", key, value] the 2-tuple returned by dict_item         *)
(*   [t |-> "float", n, d]      a float, as the ratio n/d in lowest terms  *)
(*   [t |-> "inexact"]          a float or complex that is no such ratio   *)
(*   [t |-> "exc", type]        a raised exception (never a stored value)  *)
(***************************************************************************)
EXTENDS Integers, Sequences, FiniteSets, TLC

VARIABLES
    argc,       \* len(sys.argv)
    text,       \* the input file: [malformed, stmts]
    pc,         \* where main() is
    tree,       \* the tree parser.parse returned
    items,      \* the statements transformed so far (None or a tuple each)
    evald,      \* the value each of those statements' callbacks was given
    constants,  \* ConfigTransformer.constants
    terrors,    \* ConfigTransformer.errors
    perrors,    \* ConfigParser.errors
    result,     \* what ConfigParser.parse returned
    stdout,     \* the documents printed
    stderr,     \* the lines printed to stderr
    exitcode,   \* the process's exit status, once pc = "exit"
    raised,     \* the exception that escaped the transformer
    pnode, ptable, pres, ppc,   \* one prefix expression evaluated alone
    xdata, xroot, xpc           \* one value tree serialised alone

vars == <<argc, text, pc, tree, items, evald, constants, terrors, perrors,
          result, stdout, stderr, exitcode, raised,
          pnode, ptable, pres, ppc, xdata, xroot, xpc>>

pipeVars == <<argc, text, pc, tree, items, evald, constants, terrors, perrors,
              result, stdout, stderr, exitcode, raised>>
prefixVars == <<pnode, ptable, pres, ppc>>
xmlVars == <<xdata, xroot, xpc>>

(***************************************************************************)
(* Python values                                                           *)
(***************************************************************************)
IntV(i) == [t |-> "int", v |-> i]
None == [t |-> "None"]
ListV(s) == [t |-> "list", items |-> s]
DictV(s) == [t |-> "dict", items |-> s]
TupleV(k, v) == [t |-> "tuple", key |-> k, value |-> v]
Inexact == [t |-> "inexact"]
Exc(type) == [t |-> "exc", type |-> type]

IsExc(x) == x.t = "exc"
IsNum(x) == x.t \in {"int", "float", "inexact"}

Abs(i) == IF i < 0 THEN -i ELSE i

RECURSIVE GCD(_, _)
GCD(a, b) == IF b = 0 THEN a ELSE GCD(b, a % b)

\* A float as the ratio n/d in lowest terms with d > 0.
FloatV(n, d) ==
    LET g == GCD(Abs(n), Abs(d))
        s == IF d < 0 THEN -1 ELSE 1
    IN [t |-> "float", n |-> (s * n) \div g, d |-> (s * d) \div g]

Numer(x) == IF x.t = "int" THEN x.v ELSE x.n
Denom(x) == IF x.t = "int" THEN 1 ELSE x.d

RECURSIVE IntPow(_, _)
IntPow(a, b) == IF b = 0 THEN 1 ELSE a * IntPow(a, b - 1)

RECURSIVE Repeat(_, _)
Repeat(s, k) == IF k <= 0 THEN <<>> ELSE s \o Repeat(s, k - 1)

\* a + b
PyAdd(a, b) ==
    IF IsExc(a) THEN a
    ELSE IF IsExc(b) THEN b
    ELSE IF a.t = "int" /\ b.t = "int" THEN IntV(a.v + b.v)
    ELSE IF a.t = "list" /\ b.t = "list" THEN ListV(a.items \o b.items)
    ELSE IF ~(IsNum(a) /\ IsNum(b)) THEN Exc("TypeError")
    ELSE IF a.t = "inexact" \/ b.t = "inexact" THEN Inexact
    ELSE FloatV(Numer(a) * Denom(b) + Numer(b) * Denom(a), Denom(a) * Denom(b))

\* -a
PyNeg(a) ==
    IF IsExc(a) THEN a
    ELSE IF a.t = "int" THEN IntV(-a.v)
    ELSE IF a.t = "float" THEN FloatV(-a.n, a.d)
    ELSE IF a.t = "inexact" THEN Inexact
    ELSE Exc("TypeError")

\* a - b
PySub(a, b) ==
    IF IsExc(a) THEN a
    ELSE IF IsExc(b) THEN b
    ELSE IF a.t = "int" /\ b.t = "int" THEN IntV(a.v - b.v)
    ELSE IF ~(IsNum(a) /\ IsNum(b)) THEN Exc("TypeError")
    ELSE IF a.t = "inexact" \/ b.t = "inexact" THEN Inexact
    ELSE FloatV(Numer(a) * Denom(b) - Numer(b) * Denom(a), Denom(a) * Denom(b))

\* a * b
PyMul(a, b) ==
    IF IsExc(a) THEN a
    ELSE IF IsExc(b) THEN b
    ELSE IF a.t = "int" /\ b.t = "int" THEN IntV(a.v * b.v)
    ELSE IF a.t = "int" /\ b.t = "list" THEN ListV(Repeat(b.items, a.v))
    ELSE IF a.t = "list" /\ b.t = "int" THEN ListV(Repeat(a.items, b.v))
    ELSE IF ~(IsNum(a) /\ IsNum(b)) THEN Exc("TypeError")
    ELSE IF a.t = "inexact" \/ b.t = "inexact" THEN Inexact
    ELSE FloatV(Numer(a) * Numer(b), Denom(a) * Denom(b))

\* pow(a, b): an int for two ints with b >= 0, a float for a negative
\* exponent, ZeroDivisionError for zero to a negative power.
PyPow(a, b) ==
    IF IsExc(a) THEN a
    ELSE IF IsExc(b) THEN b
    ELSE IF ~(IsNum(a) /\ IsNum(b)) THEN Exc("TypeError")
    ELSE IF a.t = "inexact" \/ b.t = "inexact" THEN Inexact
    ELSE IF Denom(b) # 1 THEN Inexact
    ELSE IF a.t = "int" /\ b.t = "int" /\ b.v >= 0 THEN IntV(IntPow(a.v, b.v))
    ELSE IF Numer(b) >= 0
         THEN FloatV(IntPow(Numer(a), Numer(b)), IntPow(Denom(a), Numer(b)))
    ELSE IF Numer(a) = 0 THEN Exc("ZeroDivisionError")
    ELSE FloatV(IntPow(Denom(a), -Numer(b)), IntPow(Numer(a), -Numer(b)))

(***************************************************************************)
(* Conversions between text and numbers                                    *)
(***************************************************************************)
DigitChar == <<"0", "1", "2", "3", "4", "5", "6", "7", "8", "9">>

\* str(i) for an int: decimal digits, "-" in front of a negative number.
RECURSIVE StrNat(_)
StrNat(i) == IF i < 10 THEN DigitChar[i + 1]
             ELSE StrNat(i \div 10) \o DigitChar[(i % 10) + 1]

StrInt(i) == IF i < 0 THEN "-" \o StrNat(-i) ELSE StrNat(i)

HexDigitValue(c) ==
    CASE c = "0" -> 0 [] c = "1" -> 1 [] c = "2" -> 2 [] c = "3" -> 3
      [] c = "4" -> 4 [] c = "5" -> 5 [] c = "6" -> 6 [] c = "7" -> 7
      [] c = "8" -> 8 [] c = "9" -> 9
      [] c \in {"a", "A"} -> 10 [] c \in {"b", "B"} -> 11
      [] c \in {"c", "C"} -> 12 [] c \in {"d", "D"} -> 13
      [] c \in {"e", "E"} -> 14 [] c \in {"f", "F"} -> 15

\* int(token, 16) for a HEX_NUMBER token; digits holds the characters that
\* follow the 0x / 0X prefix.
RECURSIVE HexToInt(_)
HexToInt(digits) ==
    IF digits = <<>> THEN 0
    ELSE 16 * HexToInt(SubSeq(digits, 1, Len(digits) - 1))
         + HexDigitValue(digits[Len(digits)])

\* Digits kept after the point when a float is rendered.
FloatDigits == 16

RECURSIVE FracStr(_, _, _)
FracStr(r, d, k) ==
    IF r = 0 \/ k = 0 THEN ""
    ELSE DigitChar[((10 * r) \div d) + 1] \o FracStr((10 * r) % d, d, k - 1)

\* str(x) for a float n/d: exact for the ratios whose expansion ends
\* within FloatDigits digits.
StrFloat(n, d) ==
    LET a == Abs(n)
        frac == FracStr(a % d, d, FloatDigits)
    IN (IF n < 0 THEN "-" ELSE "") \o StrNat(a \div d) \o "."
       \o (IF frac = "" THEN "0" ELSE frac)

RECURSIVE Repr(_), ReprList(_), ReprDict(_)
\* repr(x), which str() uses for the elements of a container (the values
\* that reach the serialiser here are never inexact).
Repr(x) ==
    CASE x.t = "int" -> StrInt(x.v)
      [] x.t = "None" -> "None"
      [] x.t = "float" -> StrFloat(x.n, x.d)
      [] x.t = "list" -> "[" \o ReprList(x.items) \o "]"
      [] x.t = "dict" -> "{" \o ReprDict(x.items) \o "}"
      [] x.t = "tuple" -> "('" \o x.key \o "', " \o Repr(x.value) \o ")"

ReprList(s) ==
    IF s = <<>> THEN ""
    ELSE IF Len(s) = 1 THEN Repr(s[1])
    ELSE Repr(s[1]) \o ", " \o ReprList(Tail(s))

ReprDict(s) ==
    IF s = <<>> THEN ""
    ELSE IF Len(s) = 1 THEN "'" \o s[1].key \o "': " \o Repr(s[1].value)
    ELSE "'" \o s[1].key \o "': " \o Repr(s[1].value) \o ", " \o ReprDict(Tail(s))

\* str(data) as _to_xml calls it.
Str(x) == Repr(x)

(***************************************************************************)
(* Python dict                                                             *)
(***************************************************************************)
Pair(k, v) == [key |-> k, value |-> v]

Keys(d) == {d[i].key : i \in 1..Len(d)}

\* d[k] = v: a new key goes last, an existing key keeps its place.
DictSet(d, k, v) ==
    IF k \in Keys(d)
    THEN [i \in 1..Len(d) |-> IF d[i].key = k THEN Pair(k, v) ELSE d[i]]
    ELSE Append(d, Pair(k, v))

DictGet(d, k) == LET i == CHOOSE j \in 1..Len(d) : d[j].key = k IN d[i].value

\* dict(pairs)
RECURSIVE DictOf(_)
DictOf(pairs) ==
    IF pairs = <<>> THEN <<>>
    ELSE LET n == Len(pairs)
         IN DictSet(DictOf(SubSeq(pairs, 1, n - 1)), pairs[n].key, pairs[n].value)

(***************************************************************************)
(* Parse tree (what Lark hands to the transformer)                         *)
(*   [n |-> "number", hex]             HEX_NUMBER token, digits after 0x   *)
(*   [n |-> "make_array", items]                                           *)
(*   [n |-> "make_dict", items]        items: dict_item_inner nodes        *)
(*   [n |-> "dict_item_inner", key, value]                                 *)
(*   [n |-> "ref_constant", name, line]                                    *)
(*   [n |-> "eval_prefix", op, args]                                       *)
(*   [n |-> "set_constant", name, value]                                   *)
(*   [n |-> "dict_item", key, value]                                       *)
(*   [n |-> "start", children]                                             *)
(***************************************************************************)
Number(hex) == [n |-> "number", hex |-> hex]
Array(xs) == [n |-> "make_array", items |-> xs]
Dict(xs) == [n |-> "make_dict", items |-> xs]
Inner(k, v) == [n |-> "dict_item_inner", key |-> k, value |-> v]
Ref(name, line) == [n |-> "ref_constant", name |-> name, line |-> line]
Prefix(op, args) == [n |-> "eval_prefix", op |-> op, args |-> args]
SetDecl(name, v) == [n |-> "set_constant", name |-> name, value |-> v]
DictEntry(k, v) == [n |-> "dict_item", key |-> k, value |-> v]
StartTree(ch) == [n |-> "start", children |-> ch]

\* OPERATOR: "+" | "-" | "*" | "pow"
Operators == {"+", "-", "*", "pow"}

(***************************************************************************)
(* ConfigTransformer                                                       *)
(***************************************************************************)
\* number(): int(items[0], 16)
NumberValue(hex) == IntV(HexToInt(hex))

UndefinedMessage(name, line) ==
    "Undefined constant '" \o name \o "' at line " \o StrInt(line)

\* A ref_constant() that yields None for an unknown name without recording it.
RefConstantSilent(name, line, table) ==
    IF name \notin DOMAIN table
    THEN [v |-> None, errors |-> <<>>]
    ELSE [v |-> table[name], errors |-> <<>>]

\* ref_constant(): the value and the error records it appends.
RefConstant(name, line, table) ==
    IF name \notin DOMAIN table
    THEN [v |-> None, errors |-> <<UndefinedMessage(name, line)>>]
    ELSE [v |-> table[name], errors |-> <<>>]

\* A set_constant() that keeps the first binding of a name.
SetConstantKeepFirst(table, name, value) ==
    IF name \in DOMAIN table THEN table
    ELSE [k \in DOMAIN table \cup {name} |-> IF k = name THEN value ELSE table[k]]

\* set_constant(): self.constants[name] = value
SetConstantTable(table, name, value) ==
    [k \in DOMAIN table \cup {name} |-> IF k = name THEN value ELSE table[k]]

\* sum(nums): 0 + nums[0] + nums[1] + ...
RECURSIVE PySum(_)
PySum(nums) ==
    IF nums = <<>> THEN IntV(0)
    ELSE PyAdd(PySum(SubSeq(nums, 1, Len(nums) - 1)), nums[Len(nums)])

\* result = 1; for n in nums: result *= n
RECURSIVE PyProduct(_)
PyProduct(nums) ==
    IF nums = <<>> THEN IntV(1)
    ELSE PyMul(PyProduct(SubSeq(nums, 1, Len(nums) - 1)), nums[Len(nums)])

\* An eval_prefix() without the single-operand case of "-".
EvalPrefixNoUnary(op, nums) ==
    IF op = "+" THEN PySum(nums)
    ELSE IF op = "-" THEN PySub(nums[1], PySum(Tail(nums)))
    ELSE IF op = "*" THEN PyProduct(nums)
    ELSE IF op = "pow"
         THEN IF Len(nums) < 2 THEN Exc("IndexError")
              ELSE PyPow(nums[1], nums[2])
    ELSE None

\* eval_prefix(): a value, or the exception the arithmetic raises.
EvalPrefix(op, nums) ==
    IF op = "+" THEN PySum(nums)
    ELSE IF op = "-"
         THEN IF Len(nums) = 1 THEN PyNeg(nums[1])
              ELSE PySub(nums[1], PySum(Tail(nums)))
    ELSE IF op = "*" THEN PyProduct(nums)
    ELSE IF op = "pow"
         THEN IF Len(nums) < 2 THEN Exc("IndexError")
              ELSE PyPow(nums[1], nums[2])
    ELSE None

\* The error record eval_prefix appends (only for an operator it does not
\* know, which the grammar never produces).
EvalPrefixErrors(op) ==
    IF op \in Operators THEN <<>> ELSE <<"Unknown operator '" \o op \o "'">>

\* Transformer.transform on a value subtree: children first, left to right,
\* then the node's callback.  Yields the value, the error records appended
\* on the way and the exception that ended it ("" when none did).
RECURSIVE Eval(_, _), EvalSeq(_, _)
Eval(node, table) ==
    CASE node.n = "number" ->
           [v |-> NumberValue(node.hex), errors |-> <<>>, exc |-> ""]
      [] node.n = "ref_constant" ->
           LET r == RefConstant(node.name, node.line, table)
           IN [v |-> r.v, errors |-> r.errors, exc |-> ""]
      [] node.n = "make_array" ->
           LET r == EvalSeq(node.items, table)
           IN [v |-> ListV(r.vs), errors |-> r.errors, exc |-> r.exc]
      [] node.n = "dict_item_inner" ->
           LET r == Eval(node.value, table)
           IN [v |-> TupleV(node.key, r.v), errors |-> r.errors, exc |-> r.exc]
      [] node.n = "make_dict" ->
           LET r == EvalSeq(node.items, table)
               pairs == [i \in 1..Len(r.vs) |-> Pair(r.vs[i].key, r.vs[i].value)]
           IN [v |-> DictV(DictOf(pairs)), errors |-> r.errors, exc |-> r.exc]
      [] node.n = "eval_prefix" ->
           LET r == EvalSeq(node.args, table)
               x == EvalPrefix(node.op, r.vs)
           IN IF r.exc # "" THEN [v |-> None, errors |-> r.errors, exc |-> r.exc]
              ELSE IF IsExc(x) THEN [v |-> None, errors |-> r.errors, exc |-> x.type]
              ELSE [v |-> x, errors |-> r.errors \o EvalPrefixErrors(node.op),
                    exc |-> ""]

EvalSeq(nodes, table) ==
    IF nodes = <<>> THEN [vs |-> <<>>, errors |-> <<>>, exc |-> ""]
    ELSE LET h == Eval(Head(nodes), table)
         IN IF h.exc # "" THEN [vs |-> <<>>, errors |-> h.errors, exc |-> h.exc]
            ELSE LET r == EvalSeq(Tail(nodes), table)
                 IN [vs |-> <<h.v>> \o r.vs, errors |-> h.errors \o r.errors,
                     exc |-> r.exc]

\* start(): result[key] = value for every tuple among the items.
RECURSIVE StartResult(_)
StartResult(its) ==
    IF its = <<>> THEN <<>>
    ELSE LET n == Len(its)
             rest == StartResult(SubSeq(its, 1, n - 1))
         IN IF its[n].t = "tuple" THEN DictSet(rest, its[n].key, its[n].value)
            ELSE rest

(***************************************************************************)
(* XML: an element is [tag, attrib, text, children]; attrib is the         *)
(* sequence of <<name, value>> attributes and text "" stands for no text.  *)
(***************************************************************************)
Element(tag, attrib) ==
    [tag |-> tag, attrib |-> attrib, text |-> "", children |-> <<>>]

RECURSIVE ToXml(_, _)
\* A _to_xml() that numbers array items from 1.
ToXmlIndexFromOne(data, parent) ==
    IF data.t = "dict"
    THEN [parent EXCEPT !.children = parent.children \o
            [i \in 1..Len(data.items) |->
                ToXml(data.items[i].value,
                      Element("entry", <<<<"name", data.items[i].key>>>>))]]
    ELSE IF data.t = "list"
    THEN [parent EXCEPT !.children = parent.children \o
            [i \in 1..Len(data.items) |->
                ToXml(data.items[i],
                      Element("array_item", <<<<"index", StrInt(i)>>>>))]]
    ELSE [parent EXCEPT !.text = Str(data)]

\* _to_xml(data, parent): parent as the call leaves it.
ToXml(data, parent) ==
    IF data.t = "dict"
    THEN [parent EXCEPT !.children = parent.children \o
            [i \in 1..Len(data.items) |->
                ToXml(data.items[i].value,
                      Element("entry", <<<<"name", data.items[i].key>>>>))]]
    ELSE IF data.t = "list"
    THEN [parent EXCEPT !.children = parent.children \o
            [i \in 1..Len(data.items) |->
                ToXml(data.items[i],
                      Element("array_item", <<<<"index", StrInt(i - 1)>>>>))]]
    ELSE [parent EXCEPT !.text = Str(data)]

\* dict_to_xml(data)
DictToXml(data) == ToXml(data, Element("config", <<>>))

(***************************************************************************)
(* Input documents                                                         *)
(***************************************************************************)
\* Statements per document.
MaxStmts == 3

Hex(c) == Number(<<c>>)

\* The statements a document is made of; statement i sits on line i.
Statements(line) ==
    { SetDecl("A", Hex("2")),
      SetDecl("A", Number(<<"1", "f">>)),
      SetDecl("A", Array(<<Hex("1"), Ref("B", line), Hex("3")>>)),
      SetDecl("B", Ref("A", line)),
      SetDecl("B", Prefix("+", <<Ref("A", line), Hex("3")>>)),
      DictEntry("x", Hex("2")),
      DictEntry("x", Number(<<"1", "F">>)),
      DictEntry("x", Ref("A", line)),
      DictEntry("x", Ref("B", line)),
      DictEntry("y", Array(<<Hex("1"), Ref("A", line), Hex("3")>>)),
      DictEntry("y", Prefix("pow", <<Hex("2"), Hex("3"), Hex("1")>>)),
      DictEntry("y", Prefix("pow", <<Hex("2"), Prefix("-", <<Hex("1")>>)>>)),
      DictEntry("y", Dict(<<Inner("a", Hex("1")), Inner("b", Ref("B", line)),
                             Inner("a", Hex("3"))>>)) }

RECURSIVE SeqsOfLen(_)
SeqsOfLen(k) ==
    IF k = 0 THEN {<<>>}
    ELSE {Append(s, st) : s \in SeqsOfLen(k - 1), st \in Statements(k)}

StatementSeqs == UNION {SeqsOfLen(k) : k \in 0..MaxStmts}

Documents ==
    {[malformed |-> FALSE, stmts |-> s] : s \in StatementSeqs}
    \cup {[malformed |-> TRUE, stmts |-> <<>>]}

SyntaxMessage == "Unexpected token"

(***************************************************************************)
(* main() and ConfigParser.parse()                                         *)
(***************************************************************************)
NoTree == [n |-> "none"]
EmptyTable == [k \in {} |-> None]

IdlePrefix ==
    /\ pnode = NoTree /\ ptable = EmptyTable /\ pres = None /\ ppc = "idle"
IdleXml ==
    /\ xdata = None /\ xroot = Element("config", <<>>) /\ xpc = "idle"

Init ==
    /\ argc \in 1..3
    /\ text \in (IF argc = 2 THEN Documents
                 ELSE {[malformed |-> FALSE, stmts |-> <<>>]})
    /\ pc = "main"
    /\ tree = NoTree
    /\ items = <<>>
    /\ evald = <<>>
    /\ constants = EmptyTable
    /\ terrors = <<>>
    /\ perrors = <<>>
    /\ result = None
    /\ stdout = <<>>
    /\ stderr = <<>>
    /\ exitcode = 0
    /\ raised = ""
    /\ IdlePrefix
    /\ IdleXml

\* main(), lines 161-163: the wrong number of arguments.
Usage ==
    /\ pc = "main"
    /\ argc # 2
    /\ stderr' = Append(stderr, "Usage: python script.py <config_file>")
    /\ exitcode' = 1
    /\ pc' = "exit"
    /\ UNCHANGED <<argc, text, tree, items, evald, constants, terrors, perrors,
                   result, stdout, raised>>
    /\ UNCHANGED <<prefixVars, xmlVars>>

\* self.parser.parse(self.text) succeeds.  A ?start rule with exactly one
\* child is inlined: the tree is then the statement itself.
LarkTree(stmts) == IF Len(stmts) = 1 THEN stmts[1] ELSE StartTree(stmts)

Parse ==
    /\ pc = "main"
    /\ argc = 2
    /\ ~text.malformed
    /\ tree' = LarkTree(text.stmts)
    /\ pc' = "transform"
    /\ UNCHANGED <<argc, text, items, evald, constants, terrors, perrors,
                   result, stdout, stderr, exitcode, raised>>
    /\ UNCHANGED <<prefixVars, xmlVars>>

\* self.parser.parse raises UnexpectedInput: parse() records it, returns {}.
SyntaxError ==
    /\ pc = "main"
    /\ argc = 2
    /\ text.malformed
    /\ perrors' = Append(perrors, SyntaxMessage)
    /\ result' = DictV(<<>>)
    /\ pc' = "parsed"
    /\ UNCHANGED <<argc, text, tree, items, evald, constants, terrors,
                   stdout, stderr, exitcode, raised>>
    /\ UNCHANGED <<prefixVars, xmlVars>>

TreeStatements == IF tree.n = "start" THEN tree.children ELSE <<tree>>

\* The statement the transformer reaches next.
NextStatement == TreeStatements[Len(items) + 1]

\* A set_decl statement: its value subtree is transformed, then
\* set_constant() binds the value and returns None.
SetConstant ==
    /\ pc = "transform"
    /\ Len(items) < Len(TreeStatements)
    /\ NextStatement.n = "set_constant"
    /\ LET r == Eval(NextStatement.value, constants)
       IN /\ terrors' = terrors \o r.errors
          /\ IF r.exc # ""
             THEN /\ raised' = r.exc
                  /\ pc' = "raised"
                  /\ UNCHANGED <<items, evald, constants>>
             ELSE /\ constants' = SetConstantTable(constants, NextStatement.name, r.v)
                  /\ items' = Append(items, None)
                  /\ evald' = Append(evald, r.v)
                  /\ UNCHANGED <<raised, pc>>
    /\ UNCHANGED <<argc, text, tree, perrors, result, stdout, stderr, exitcode>>
    /\ UNCHANGED <<prefixVars, xmlVars>>

\* A dict_entry statement: its value subtree is transformed, then
\* dict_item() returns the tuple (key, value).
DictItem ==
    /\ pc = "transform"
    /\ Len(items) < Len(TreeStatements)
    /\ NextStatement.n = "dict_item"
    /\ LET r == Eval(NextStatement.value, constants)
       IN /\ terrors' = terrors \o r.errors
          /\ IF r.exc # ""
             THEN /\ raised' = r.exc
                  /\ pc' = "raised"
                  /\ UNCHANGED <<items, evald>>
             ELSE /\ items' = Append(items, TupleV(NextStatement.key, r.v))
                  /\ evald' = Append(evald, r.v)
                  /\ UNCHANGED <<raised, pc>>
    /\ UNCHANGED <<argc, text, tree, constants, perrors, result, stdout, stderr,
                   exitcode>>
    /\ UNCHANGED <<prefixVars, xmlVars>>

\* transform() returns (through start() unless the tree is one inlined
\* statement); parse() copies the transformer's errors and returns.
TransformResult(t, its) == IF t.n = "start" THEN DictV(StartResult(its)) ELSE its[1]

ParseReturn ==
    /\ pc = "transform"
    /\ Len(items) = Len(TreeStatements)
    /\ result' = TransformResult(tree, items)
    /\ perrors' = terrors
    /\ pc' = "parsed"
    /\ UNCHANGED <<argc, text, tree, items, evald, constants, terrors,
                   stdout, stderr, exitcode, raised>>
    /\ UNCHANGED <<prefixVars, xmlVars>>

\* An exception raised in a callback (Lark wraps it in VisitError, which is
\* no UnexpectedInput) leaves parse() and main(): a traceback, status 1.
Uncaught ==
    /\ pc = "raised"
    /\ stderr' = Append(stderr, "Traceback: " \o raised)
    /\ exitcode' = 1
    /\ pc' = "exit"
    /\ UNCHANGED <<argc, text, tree, items, evald, constants, terrors, perrors,
                   result, stdout, raised>>
    /\ UNCHANGED <<prefixVars, xmlVars>>

\* main(), lines 171-174
MainErrors ==
    /\ pc = "parsed"
    /\ perrors # <<>>
    /\ stderr' = stderr \o [i \in 1..Len(perrors) |-> "Error: " \o perrors[i]]
    /\ exitcode' = 1
    /\ pc' = "exit"
    /\ UNCHANGED <<argc, text, tree, items, evald, constants, terrors, perrors,
                   result, stdout, raised>>
    /\ UNCHANGED <<prefixVars, xmlVars>>

\* main(), lines 176-182: the document is printed.
MainEmit ==
    /\ pc = "parsed"
    /\ perrors = <<>>
    /\ stdout' = Append(stdout, DictToXml(result))
    /\ pc' = "exit"
    /\ UNCHANGED <<argc, text, tree, items, evald, constants, terrors, perrors,
                   result, stderr, exitcode, raised>>
    /\ UNCHANGED <<prefixVars, xmlVars>>

Next ==
    \/ Usage
    \/ Parse
    \/ SyntaxError
    \/ SetConstant
    \/ DictItem
    \/ ParseReturn
    \/ Uncaught
    \/ MainErrors
    \/ MainEmit

Spec == Init /\ [][Next]_vars

(***************************************************************************)
(* One prefix expression, transformed alone against a constant table       *)
(***************************************************************************)
\* Operands per prefix expression.
MaxOperands == 3

PrefixTable ==
    [k \in {"A", "L", "D"} |->
        CASE k = "A" -> IntV(2)
          [] k = "L" -> ListV(<<IntV(1)>>)
          [] k = "D" -> DictV(<<Pair("a", IntV(1))>>)]

Operands ==
    { Hex("0"), Hex("1"), Hex("3"), Hex("5"), Hex("9"),
      Prefix("-", <<Hex("5")>>),
      Prefix("+", <<Hex("1"), Hex("3")>>),
      Ref("A", 1), Ref("L", 1), Ref("D", 1), Ref("U", 1),
      Array(<<Hex("1")>>) }

RECURSIVE OperandSeqs(_)
OperandSeqs(k) ==
    IF k = 0 THEN {<<>>}
    ELSE {Append(s, x) : s \in OperandSeqs(k - 1), x \in Operands}

PrefixExprs ==
    {Prefix(op, args) : op \in Operators,
                        args \in UNION {OperandSeqs(k) : k \in 1..MaxOperands}}

IdlePipeline ==
    /\ argc = 2 /\ text = [malformed |-> FALSE, stmts |-> <<>>] /\ pc = "idle"
    /\ tree = NoTree /\ items = <<>> /\ evald = <<>> /\ constants = EmptyTable
    /\ terrors = <<>> /\ perrors = <<>> /\ result = None /\ stdout = <<>>
    /\ stderr = <<>> /\ exitcode = 0 /\ raised = ""

InitPrefix ==
    /\ pnode \in PrefixExprs
    /\ ptable = PrefixTable
    /\ pres = None
    /\ ppc = "ready"
    /\ IdlePipeline
    /\ IdleXml

\* The transformer runs on the expression: operands first, then
\* eval_prefix().
TransformPrefix ==
    /\ ppc = "ready"
    /\ pres' = Eval(pnode, ptable)
    /\ ppc' = "done"
    /\ UNCHANGED <<pnode, ptable>>
    /\ UNCHANGED <<pipeVars, xmlVars>>

NextPrefix == TransformPrefix

SpecPrefix == InitPrefix /\ [][NextPrefix]_vars

(***************************************************************************)
(* One value tree, serialised alone                                        *)
(***************************************************************************)
\* Elements per array.
MaxLen == 2

Leaves == {IntV(0), IntV(-12), IntV(305), None}

RECURSIVE SeqsOver(_, _)
SeqsOver(S, k) ==
    IF k = 0 THEN {<<>>}
    ELSE {Append(s, x) : s \in SeqsOver(S, k - 1), x \in S}

Arrays(S) == {ListV(s) : s \in UNION {SeqsOver(S, k) : k \in 0..MaxLen}}

Dicts(S) ==
    {DictV(<<>>)}
    \cup {DictV(<<Pair(k, v)>>) : k \in {"a", "b"}, v \in S}
    \cup {DictV(<<Pair(k[1], v), Pair(k[2], w)>>) :
            k \in {<<"a", "b">>, <<"b", "a">>}, v \in S, w \in S}

Flat == Arrays(Leaves) \cup Dicts(Leaves)

\* A flat array with one more element, itself a flat array or dict.
Nested == {ListV(Append(a.items, e)) : a \in Arrays(Leaves), e \in Flat}

ValueTrees ==
    {DictV(<<Pair("x", v)>>) : v \in Leaves \cup Flat \cup Nested}
    \cup {DictV(<<Pair("x", v), Pair("arr", w)>>) : v \in Leaves, w \in Flat}
    \cup {DictV(<<Pair("d", DictV(<<Pair("k", v)>>))>>) : v \in Flat}

InitXml ==
    /\ xdata \in ValueTrees
    /\ xroot = Element("config", <<>>)
    /\ xpc = "ready"
    /\ IdlePipeline
    /\ IdlePrefix

Serialize ==
    /\ xpc = "ready"
    /\ xroot' = DictToXml(xdata)
    /\ xpc' = "done"
    /\ UNCHANGED xdata
    /\ UNCHANGED <<pipeVars, prefixVars>>

NextXml == Serialize

SpecXml == InitXml /\ [][NextXml]_vars

(***************************************************************************)
(* Properties of the pipeline (checked under Spec)                         *)
(***************************************************************************)
Source == text.stmts

MaxOf(S) == CHOOSE j \in S : \A k \in S : k <= j

\* The last `set name = ...;` before statement i in source order, 0 if none.
LastSet(name, i) ==
    LET J == {j \in 1..(i - 1) : /\ Source[j].n = "set_constant"
                                 /\ Source[j].name = name}
    IN IF J = {} THEN 0 ELSE MaxOf(J)

\* The last item of a dict display that carries the key of item k.
LastWithKey(its, k) == MaxOf({j \in 1..Len(its) : its[j].key = its[k].key})

Recorded(msg) == \E k \in 1..Len(terrors) : terrors[k] = msg

RECURSIVE ResolvesInOrder(_, _, _)
\* Value v of a node of statement i holds, at every reference that is not an
\* operand, what the nearest earlier `set` bound, or None with an error record.
ResolvesInOrder(node, v, i) ==
    CASE node.n = "ref_constant" ->
           IF LastSet(node.name, i) = 0
           THEN v = None /\ Recorded(UndefinedMessage(node.name, node.line))
           ELSE v = evald[LastSet(node.name, i)]
      [] node.n = "make_array" ->
           /\ v.t = "list"
           /\ Len(v.items) = Len(node.items)
           /\ \A k \in 1..Len(node.items) :
                 ResolvesInOrder(node.items[k], v.items[k], i)
      [] node.n = "make_dict" ->
           /\ v.t = "dict"
           /\ \A k \in 1..Len(node.items) :
                 LastWithKey(node.items, k) = k =>
                    /\ node.items[k].key \in Keys(v.items)
                    /\ ResolvesInOrder(node.items[k].value,
                                       DictGet(v.items, node.items[k].key), i)
      [] OTHER -> TRUE

ChainExample ==
    << SetDecl("A", Hex("2")),
       SetDecl("B", Prefix("+", <<Ref("A", 2), Hex("3")>>)),
       DictEntry("x", Ref("B", 3)) >>

ForwardExample == << DictEntry("x", Ref("A", 1)), SetDecl("A", Hex("2")) >>

OverwriteExample ==
    << SetDecl("A", Hex("2")), SetDecl("A", Number(<<"1", "f">>)),
       DictEntry("x", Ref("A", 3)) >>

\* C1: a constant reference resolves to the value bound by the most recent
\* `set` of that name that precedes it in source order (a later `set`
\* overwrites an earlier one and records no error); with no earlier `set`
\* it records an undefined-constant error and yields None, even if a `set`
\* of the name follows.  `set A = 0x2; set B = (+ A 0x3); x: B;` gives
\* x = 5, and `x: A; set A = 0x2;` gives x = None and one error.
C1_ConstantResolutionOrder ==
    /\ \A i \in 1..Len(evald) : ResolvesInOrder(Source[i].value, evald[i], i)
    /\ (pc = "parsed" /\ Source = ChainExample) =>
          /\ result = DictV(<<Pair("x", IntV(5))>>)
          /\ perrors = <<>>
    /\ (pc = "parsed" /\ Source = ForwardExample) =>
          /\ result = DictV(<<Pair("x", None)>>)
          /\ perrors = <<UndefinedMessage("A", 1)>>
    /\ (pc = "parsed" /\ Source = OverwriteExample) =>
          /\ result = DictV(<<Pair("x", IntV(31))>>)
          /\ perrors = <<>>

\* C1 witness: a finished run in which a reference took the value of the
\* second of two different bindings of its name.
C1_Witness ==
    /\ pc = "exit"
    /\ \E i \in 1..Len(evald) :
          /\ Source[i].value.n = "ref_constant"
          /\ LET j == LastSet(Source[i].value.name, i)
             IN /\ j # 0
                /\ LastSet(Source[i].value.name, j) # 0
                /\ evald[LastSet(Source[i].value.name, j)] # evald[j]
                /\ evald[i] = evald[j]

FlatDocument ==
    /\ ~text.malformed
    /\ \A i \in 1..Len(Source) :
          Source[i].n = "dict_item" /\ Source[i].value.n = "number"

\* C2: for a document of flat integer entries only (one or many, names
\* possibly repeated) the printed document has under root config exactly
\* one entry element per statement, in source order, named after the
\* statement's identifier and holding the decimal text of its hex literal.
C2_OneEntryPerStatement ==
    (pc = "exit" /\ argc = 2 /\ FlatDocument) =>
        /\ Len(stdout) = 1
        /\ stdout[1].tag = "config"
        /\ Len(stdout[1].children) = Len(Source)
        /\ \A i \in 1..Len(Source) :
              /\ stdout[1].children[i].tag = "entry"
              /\ stdout[1].children[i].attrib = <<<<"name", Source[i].key>>>>
              /\ stdout[1].children[i].text = StrInt(HexToInt(Source[i].value.hex))

\* Statement st has, as a direct operand of a prefix expression, a
\* reference to a name table does not bind.
NullOperand(st, table) ==
    /\ st.value.n = "eval_prefix"
    /\ \E k \in 1..Len(st.value.args) :
          /\ st.value.args[k].n = "ref_constant"
          /\ st.value.args[k].name \notin DOMAIN table

\* C3: a prefix expression with an operand that is None because of an
\* unresolved reference does not crash: no exception escapes, and the
\* document is evaluated to the end with a result and an error list.
C3_NullOperandPropagates ==
    raised # "" => ~NullOperand(NextStatement, constants)

RECURSIVE RefsOf(_)
\* The references of a value subtree in the order they are evaluated.
RefsOf(node) ==
    LET Cat(nodes) ==
          LET F[k \in 0..Len(nodes)] ==
                IF k = 0 THEN <<>> ELSE F[k - 1] \o RefsOf(nodes[k])
          IN F[Len(nodes)]
    IN CASE node.n = "ref_constant" -> <<node>>
         [] node.n = "make_array" -> Cat(node.items)
         [] node.n = "make_dict" -> Cat(node.items)
         [] node.n = "dict_item_inner" -> RefsOf(node.value)
         [] node.n = "eval_prefix" -> Cat(node.args)
         [] OTHER -> <<>>

\* The error records of the undefined references of statement i.
UndefinedIn(i) ==
    LET refs == RefsOf(Source[i].value)
        Undefined(r) == LastSet(r.name, i) = 0
        bad == SelectSeq(refs, Undefined)
    IN [k \in 1..Len(bad) |-> UndefinedMessage(bad[k].name, bad[k].line)]

RECURSIVE ExpectedErrors(_)
ExpectedErrors(k) ==
    IF k = 0 THEN <<>> ELSE ExpectedErrors(k - 1) \o UndefinedIn(k)

IsPrefixOf(s, t) == Len(s) <= Len(t) /\ SubSeq(t, 1, Len(s)) = s

RECURSIVE HasPrefixExpr(_)
HasPrefixExpr(node) ==
    CASE node.n = "eval_prefix" -> TRUE
      [] node.n = "make_array" ->
           \E k \in 1..Len(node.items) : HasPrefixExpr(node.items[k])
      [] node.n = "make_dict" ->
           \E k \in 1..Len(node.items) : HasPrefixExpr(node.items[k].value)
      [] OTHER -> FALSE

RECURSIVE NullInPlace(_, _, _)
\* Value v of a node of statement i has None where an undefined reference
\* stands, and every literal sibling at its own value.
NullInPlace(node, v, i) ==
    CASE node.n = "number" -> v = IntV(HexToInt(node.hex))
      [] node.n = "ref_constant" -> (LastSet(node.name, i) = 0) => (v = None)
      [] node.n = "make_array" ->
           /\ v.t = "list"
           /\ Len(v.items) = Len(node.items)
           /\ \A k \in 1..Len(node.items) :
                 NullInPlace(node.items[k], v.items[k], i)
      [] node.n = "make_dict" ->
           /\ v.t = "dict"
           /\ Keys(v.items) = {node.items[k].key : k \in 1..Len(node.items)}
           /\ \A k \in 1..Len(node.items) :
                 LastWithKey(node.items, k) = k =>
                    NullInPlace(node.items[k].value,
                                DictGet(v.items, node.items[k].key), i)
      [] OTHER -> TRUE

C6_ResultIsMappingOfEntries ==
    (pc = "parsed" /\ ~text.malformed) =>
        /\ result.t = "dict"
        /\ Keys(result.items) =
              {Source[i].key : i \in {j \in 1..Len(Source) : Source[j].n = "dict_item"}}

RecordedErrors == IF perrors # <<>> THEN perrors ELSE terrors

\* C7: every run on an input ends in one of two ways: no error was recorded
\* and the document is printed; or at least one error was recorded, every
\* recorded message is printed, the exit status is a failure and no document
\* is printed.
C7_TwoOutcomes ==
    (pc = "exit" /\ argc = 2) =>
        \/ /\ RecordedErrors = <<>>
           /\ Len(stdout) = 1
           /\ exitcode = 0
        \/ /\ RecordedErrors # <<>>
           /\ stdout = <<>>
           /\ exitcode = 1
           /\ \A k \in 1..Len(RecordedErrors) :
                 \E j \in 1..Len(stderr) : stderr[j] = "Error: " \o RecordedErrors[k]

(***************************************************************************)
(* Properties of prefix expressions (checked under SpecPrefix)             *)
(***************************************************************************)
RECURSIVE IsIntExpr(_)
\* The node denotes an integer: a literal, a constant bound to an int, or
\* +, - or * over such nodes.
IsIntExpr(node) ==
    CASE node.n = "number" -> TRUE
      [] node.n = "ref_constant" ->
           node.name \in DOMAIN ptable /\ ptable[node.name].t = "int"
      [] node.n = "eval_prefix" ->
           /\ node.op \in {"+", "-", "*"}
           /\ \A k \in 1..Len(node.args) : IsIntExpr(node.args[k])
      [] OTHER -> FALSE

RECURSIVE SumOf(_)
SumOf(s) == IF s = <<>> THEN 0 ELSE Head(s) + SumOf(Tail(s))

RECURSIVE ProductOf(_)
ProductOf(s) == IF s = <<>> THEN 1 ELSE Head(s) * ProductOf(Tail(s))

RECURSIVE Meaning(_)
\* The integer an integer expression stands for, operands first.
Meaning(node) ==
    CASE node.n = "number" -> HexToInt(node.hex)
      [] node.n = "ref_constant" -> ptable[node.name].v
      [] node.n = "eval_prefix" ->
           LET xs == [k \in 1..Len(node.args) |-> Meaning(node.args[k])]
           IN CASE node.op = "+" -> SumOf(xs)
                [] node.op = "*" -> ProductOf(xs)
                [] node.op = "-" ->
                     IF Len(xs) = 1 THEN 0 - xs[1] ELSE xs[1] - SumOf(Tail(xs))

IntOperands == \A k \in 1..Len(pnode.args) : IsIntExpr(pnode.args[k])

\* C4: pow with exactly two integer operands a, b (b >= 0) is a to the
\* power b; pow with any other number of operands is an evaluation error:
\* an error record is appended and no value is computed from some of the
\* operands.
C4_PowArity ==
    (ppc = "done" /\ pnode.op = "pow" /\ IntOperands) =>
        IF Len(pnode.args) = 2
        THEN Meaning(pnode.args[2]) >= 0 =>
                /\ pres.exc = ""
                /\ pres.v = IntV(IntPow(Meaning(pnode.args[1]), Meaning(pnode.args[2])))
        ELSE /\ pres.exc = ""
             /\ pres.errors # <<>>
             /\ pres.v = None

\* C9: over a non-empty list of integer operands + is the sum, * the
\* product, - the negation of a single operand and otherwise the first
\* operand minus the sum of the rest ((- 0x5) = -5, (- 0x9 0x3 0x1) = 5);
\* operands that are prefix expressions are evaluated first.
C9_Arithmetic ==
    /\ (ppc = "done" /\ pnode.op \in {"+", "-", "*"} /\ IntOperands) =>
          pres = [v |-> IntV(Meaning(pnode)), errors |-> <<>>, exc |-> ""]
    /\ (ppc = "done" /\ pnode = Prefix("-", <<Hex("5")>>)) => pres.v = IntV(-5)
    /\ (ppc = "done" /\ pnode = Prefix("-", <<Hex("9"), Hex("3"), Hex("1")>>)) =>
          pres.v = IntV(5)
    /\ (ppc = "done" /\ pnode = Prefix("*", <<Prefix("-", <<Hex("5")>>),
                                              Prefix("+", <<Hex("1"), Hex("3")>>)>>)) =>
          pres.v = IntV(-20)

\* C9 witness: a subtraction of three operands, one of them a nested
\* expression, has been evaluated to an integer.
C9_Witness ==
    /\ ppc = "done"
    /\ pnode = Prefix("-", <<Hex("9"), Prefix("+", <<Hex("1"), Hex("3")>>), Hex("1")>>)
    /\ pres.v = IntV(4)

NegativeExponent ==
    /\ pnode.op = "pow"
    /\ Len(pnode.args) >= 2
    /\ IsIntExpr(pnode.args[1]) /\ IsIntExpr(pnode.args[2])
    /\ Meaning(pnode.args[2]) < 0

\* C10: a prefix expression that yields a value yields an integer or None,
\* whatever its operands are (integers, arrays, dicts, constants bound to
\* them), and pow with a negative exponent is an evaluation error: an error
\* record and None.
C10_IntegerOrNull ==
    (ppc = "done" /\ pres.exc = "") =>
        /\ pres.v.t \in {"int", "None"}
        /\ NegativeExponent => (pres.v = None /\ pres.errors # <<>>)

(***************************************************************************)
(* Properties of the serialiser (checked under SpecXml)                    *)
(***************************************************************************)
\* The text expected for each integer leaf of the value trees.
DecimalText(i) ==
    CASE i = 0 -> "0" [] i = 1 -> "1" [] i = -12 -> "-12" [] i = 305 -> "305"

IndexText == <<"0", "1", "2", "3", "4", "5", "6", "7", "8", "9">>

IntegerTexts == {StrInt(i) : i \in -400..400}

RECURSIVE Mirrors(_, _)
\* Element e has the shape of value v at every depth.
Mirrors(v, e) ==
    CASE v.t = "dict" ->
           /\ e.text = ""
           /\ Len(e.children) = Len(v.items)
           /\ \A i \in 1..Len(v.items) :
                 /\ e.children[i].tag = "entry"
                 /\ e.children[i].attrib = <<<<"name", v.items[i].key>>>>
                 /\ Mirrors(v.items[i].value, e.children[i])
      [] v.t = "list" ->
           /\ e.text = ""
           /\ Len(e.children) = Len(v.items)
           /\ \A i \in 1..Len(v.items) :
                 /\ e.children[i].tag = "array_item"
                 /\ e.children[i].attrib = <<<<"index", IndexText[i]>>>>
                 /\ Mirrors(v.items[i], e.children[i])
      [] v.t = "int" -> e.children = <<>> /\ e.text = DecimalText(v.v)
      [] v.t = "None" ->
           e.children = <<>> /\ e.text = "None" /\ e.text \notin IntegerTexts

NestedExample ==
    DictV(<<Pair("x", ListV(<<IntV(0), IntV(-12), ListV(<<IntV(305)>>)>>))>>)

\* C8: serialisation keeps structure and order: a dict gives one entry
\* child per pair, named after the key, in the dict's order; an array of n
\* elements gives n array_item children with index "0".."n-1" in element
\* order; an integer leaf gives its decimal text and a None leaf a text that
\* is no integer's; and so at every depth.
C8_SerializationMirrorsTree ==
    xpc = "done" => (xroot.tag = "config" /\ Mirrors(xdata, xroot))

\* C8 witness: an array of two integers and a nested array has been
\* serialised.
C8_Witness ==
    /\ xpc = "done"
    /\ xdata = NestedExample
    /\ Len(xroot.children[1].children) = 3
    /\ xroot.children[1].children[3].children[1].text = "305"

====
